---- MODULE Spec2Model ----
(***************************************************************************)
(* Model of the Kodi repository pipeline of generate_pipiline.py (and of   *)
(* the ingestion-only script generate_zip.py): archive ingestion, the      *)
(* aggregate manifest with its digest, and the bottom-up index.html        *)
(* synthesis, over a bounded family of directory trees.                    *)
(*                                                                         *)
(* File and directory names are strings; every name operation of the code  *)
(* (lower(), Path.suffix, Path.stem, glob, the version regex, int()) is    *)
(* computed character by character.                                        *)
(***************************************************************************)
EXTENDS Integers, Sequences, FiniteSets, TLC

VARIABLES
    fs,      \* the directory tree under BASE_DIR: path -> entry
    pc,      \* position of main()
    run,     \* number of the current run of main()
    zips,    \* etapa_processar_zips: archives still to process
    todo,    \* etapa_index: directories still to visit, in call order
    before,  \* the tree as it was when the current run started
    order,   \* the order in which the file system lists a directory
    repos    \* last result of encontrar_repos_mais_recentes

vars == <<fs, pc, run, zips, todo, before, order, repos>>

-----------------------------------------------------------------------------
(* Bounds of the explored family of trees. *)

MaxRootZips == 2
MaxFixtures == 2
MaxRuns == 2
MaxFolders == 4
MaxPlaced == 3

-----------------------------------------------------------------------------
(* Characters and strings. *)

Alphabet == "-./0123456789ABCDEFGHIJKLMNOPQRSTUVWXYZ_abcdefghijklmnopqrstuvwxyz"
Uppers == "ABCDEFGHIJKLMNOPQRSTUVWXYZ"
Lowers == "abcdefghijklmnopqrstuvwxyz"
Digits == "0123456789"

Chr(s, i) == SubSeq(s, i, i)

Ord(c) == CHOOSE i \in 1..Len(Alphabet) : Chr(Alphabet, i) = c

IsDigit(c) == \E i \in 1..Len(Digits) : Chr(Digits, i) = c

DigitVal(c) == (CHOOSE i \in 1..Len(Digits) : Chr(Digits, i) = c) - 1

LowerChar(c) ==
    IF \E i \in 1..Len(Uppers) : Chr(Uppers, i) = c
    THEN Chr(Lowers, CHOOSE i \in 1..Len(Uppers) : Chr(Uppers, i) = c)
    ELSE c

RECURSIVE Lower(_)
Lower(s) ==
    IF s = "" THEN ""
    ELSE LowerChar(Chr(s, 1)) \o Lower(SubSeq(s, 2, Len(s)))

StartsWith(s, p) == Len(s) >= Len(p) /\ SubSeq(s, 1, Len(p)) = p

EndsWith(s, p) == Len(s) >= Len(p) /\ SubSeq(s, Len(s) - Len(p) + 1, Len(s)) = p

(* Python's str < str: code-point lexicographic, a proper prefix first. *)
RECURSIVE StrLess(_, _)
StrLess(a, b) ==
    IF b = "" THEN FALSE
    ELSE IF a = "" THEN TRUE
    ELSE IF Chr(a, 1) = Chr(b, 1)
         THEN StrLess(SubSeq(a, 2, Len(a)), SubSeq(b, 2, Len(b)))
         ELSE Ord(Chr(a, 1)) < Ord(Chr(b, 1))

(* str.split(sep) for a one-character separator. *)
RECURSIVE SplitFrom(_, _, _)
SplitFrom(s, sep, cur) ==
    IF s = "" THEN <<cur>>
    ELSE IF Chr(s, 1) = sep
         THEN <<cur>> \o SplitFrom(SubSeq(s, 2, Len(s)), sep, "")
         ELSE SplitFrom(SubSeq(s, 2, Len(s)), sep, cur \o Chr(s, 1))

Split(s, sep) == SplitFrom(s, sep, "")

(* str.lstrip("/") *)
RECURSIVE LStripSlash(_)
LStripSlash(s) ==
    IF s # "" /\ Chr(s, 1) = "/" THEN LStripSlash(SubSeq(s, 2, Len(s))) ELSE s

(* int() of a string of decimal digits. *)
RECURSIVE ToInt(_)
ToInt(s) ==
    IF s = "" THEN 0
    ELSE 10 * ToInt(SubSeq(s, 1, Len(s) - 1)) + DigitVal(Chr(s, Len(s)))

AllDigits(s) == s # "" /\ \A i \in 1..Len(s) : IsDigit(Chr(s, i))

(* Position of the last "." of a name, 0 when there is none (str.rfind + 1). *)
LastDot(name) ==
    LET ds == {i \in 1..Len(name) : Chr(name, i) = "."}
    IN  IF ds = {} THEN 0 ELSE CHOOSE i \in ds : \A j \in ds : j <= i

(* pathlib PurePath.suffix and PurePath.stem. *)
Suffix(name) ==
    LET i == LastDot(name)
    IN  IF 1 < i /\ i < Len(name) THEN SubSeq(name, i, Len(name)) ELSE ""

Stem(name) ==
    LET i == LastDot(name)
    IN  IF 1 < i /\ i < Len(name) THEN SubSeq(name, 1, i - 1) ELSE name

(* os.path.splitext(name)[0] of generate_zip.py: leading dots are skipped,   *)
(* a trailing dot is a (one-character) extension.                          *)
SplitextRoot(name) ==
    LET i == LastDot(name)
        lead == \A j \in 1..(i - 1) : Chr(name, j) = "."
    IN  IF i > 1 /\ ~lead THEN SubSeq(name, 1, i - 1) ELSE name

Hidden(name) == StartsWith(name, ".")

-----------------------------------------------------------------------------
(* The directory tree.  A path is the sequence of names below BASE_DIR; the  *)
(* empty path is BASE_DIR itself.                                          *)

Root == << >>

Dir == [kind |-> "dir"]

File(data) == [kind |-> "file", data |-> data]

Name(p) == p[Len(p)]

Parent(p) == SubSeq(p, 1, Len(p) - 1)

Exists(f, p) == p \in DOMAIN f

IsDir(f, p) == p \in DOMAIN f /\ f[p].kind = "dir"

IsFile(f, p) == p \in DOMAIN f /\ f[p].kind = "file"

Children(f, d) ==
    {p \in DOMAIN f : Len(p) = Len(d) + 1 /\ SubSeq(p, 1, Len(d)) = d}

Prefixes(p) == {SubSeq(p, 1, k) : k \in 0..Len(p)}

(* Path.mkdir(parents=True, exist_ok=True) *)
safe_mkdir(f, p) ==
    [q \in DOMAIN f \cup Prefixes(p) |-> IF q \in DOMAIN f THEN f[q] ELSE Dir]

(* write_bytes / write_text: create or overwrite. *)
WriteFile(f, p, data) ==
    [q \in DOMAIN f \cup {p} |-> IF q = p THEN File(data) ELSE f[q]]

(* Path.unlink *)
Unlink(f, p) == [q \in DOMAIN f \ {p} |-> f[q]]

(* shutil.move(src, dst): into dst when dst is a directory, else a rename   *)
(* that replaces dst.                                                      *)
Move(f, src, dst) ==
    LET real == IF IsDir(f, dst) THEN dst \o <<Name(src)>> ELSE dst
    IN  WriteFile(Unlink(f, src), real, f[src].data)

(* The order in which the file system lists names: arbitrary, but the same *)
(* for every listing of a run.                                             *)
ListedBefore(a, b) == IF order = "asc" THEN StrLess(a, b) ELSE StrLess(b, a)

RECURSIVE ListingOf(_)
ListingOf(S) ==
    IF S = {} THEN << >>
    ELSE LET first == CHOOSE p \in S :
                         \A q \in S \ {p} : ListedBefore(Name(p), Name(q))
         IN  <<first>> \o ListingOf(S \ {first})

(* Path.iterdir() / os.listdir() *)
IterDir(f, d) == ListingOf(Children(f, d))

(* Path.rglob: every entry below d, each directory's entries before those  *)
(* of its subdirectories.                                                  *)
RECURSIVE Walk(_, _)
RECURSIVE WalkSubdirs(_, _)
Walk(f, d) == IterDir(f, d) \o WalkSubdirs(f, IterDir(f, d))
WalkSubdirs(f, ps) ==
    IF ps = << >> THEN << >>
    ELSE (IF IsDir(f, Head(ps)) THEN Walk(f, Head(ps)) ELSE << >>)
             \o WalkSubdirs(f, Tail(ps))

(* fnmatch of a name against "*.zip" and against "One.repo-*.zip". *)
GlobZip(name) == EndsWith(name, ".zip")

GlobOneRepo(name) ==
    /\ Len(name) >= Len("One.repo-") + Len(".zip")
    /\ StartsWith(name, "One.repo-")
    /\ EndsWith(name, ".zip")

RGlobZip(f, d) == SelectSeq(Walk(f, d), LAMBDA p : GlobZip(Name(p)))

(* A variant that looks with glob, at the directory's own entries only. *)
GlobOneRepoTop(f, d) == SelectSeq(IterDir(f, d), LAMBDA p : GlobOneRepo(Name(p)))

RGlobOneRepo(f, d) == SelectSeq(Walk(f, d), LAMBDA p : GlobOneRepo(Name(p)))

-----------------------------------------------------------------------------
(* File contents. *)

Manifest(wf, tag, hasId, id, hasVersion, version, assets) ==
    [wf |-> wf, tag |-> tag, hasId |-> hasId, id |-> id,
     hasVersion |-> hasVersion, version |-> version, assets |-> assets]

XmlData(m) == [t |-> "xml", xml |-> m]

ZipData(names, m) == [t |-> "zip", names |-> names, xml |-> m]

Blob(what) == [t |-> "blob", what |-> what]

Html(links, hidden) == [t |-> "html", links |-> links, hidden |-> hidden]

AddonsData(addons) == [t |-> "addons", addons |-> addons]

(* hashlib.md5(data).hexdigest(): a digest that determines the bytes. *)
Md5(data) == [t |-> "md5", of |-> data]

-----------------------------------------------------------------------------
(* Stage 1: archive ingestion. *)

BASE_DIR == Root

RECURSIVE Join(_, _)
Join(parts, sep) ==
    IF parts = << >> THEN ""
    ELSE IF Len(parts) = 1 THEN parts[1]
    ELSE parts[1] \o sep \o Join(Tail(parts), sep)

(* A variant that accepts any entry whose name ends in addon.xml. *)
RECURSIVE find_addon_xml_loose(_)
find_addon_xml_loose(names) ==
    IF names = << >> THEN ""
    ELSE IF EndsWith(Lower(Head(names)), "addon.xml") THEN Head(names)
    ELSE find_addon_xml_loose(Tail(names))

(* The first entry named addon.xml, or ending in /addon.xml, whatever its   *)
(* case; "" stands for None.                                               *)
RECURSIVE find_addon_xml(_)
find_addon_xml(names) ==
    IF names = << >> THEN ""
    ELSE LET low == Lower(Head(names))
         IN  IF low = "addon.xml" \/ EndsWith(low, "/addon.xml")
             THEN Head(names)
             ELSE find_addon_xml(Tail(names))

(* The texts of the icon, fanart and screenshot elements that are not empty. *)
extract_asset_paths(m) == SelectSeq(m.assets, LAMBDA a : a # "")

(* Path(internal).parent as a string; "." for an entry at the top. *)
PathParent(internal) ==
    LET parts == Split(internal, "/")
    IN  IF Len(parts) = 1 THEN "." ELSE Join(SubSeq(parts, 1, Len(parts) - 1), "/")

(* (addon_root_dir / asset).as_posix().lstrip("/") *)
InternalPath(root_dir, asset) ==
    LStripSlash(IF StartsWith(asset, "/") THEN asset
                ELSE IF root_dir = "." THEN asset
                ELSE root_dir \o "/" \o asset)

(* os.path.dirname(internal) and the f-string join of generate_zip.py. *)
Dirname(internal) ==
    LET parts == Split(internal, "/")
    IN  Join(SubSeq(parts, 1, Len(parts) - 1), "/")

LegacyInternalPath(root_dir, asset) ==
    LStripSlash(IF root_dir # "" THEN root_dir \o "/" \o asset ELSE asset)

InNamelist(names, n) == \E i \in 1..Len(names) : names[i] = n

(* The loop over the declared assets: each one found in the archive is     *)
(* written below the package folder, the others are only reported.         *)
RECURSIVE ExtractAssets(_, _, _, _, _)
ExtractAssets(f, addon_folder, names, root_dir, assets) ==
    IF assets = << >> THEN f
    ELSE LET asset == Head(assets)
             internal == InternalPath(root_dir, asset)
             target == addon_folder \o Split(asset, "/")
             g == IF InNamelist(names, internal)
                  THEN WriteFile(safe_mkdir(f, Parent(target)), target, Blob(internal))
                  ELSE f
         IN  ExtractAssets(g, addon_folder, names, root_dir, Tail(assets))

RECURSIVE LegacyExtractAssets(_, _, _, _, _)
LegacyExtractAssets(f, addon_folder, names, root_dir, assets) ==
    IF assets = << >> THEN f
    ELSE LET asset == Head(assets)
             internal == LegacyInternalPath(root_dir, asset)
             target == addon_folder \o Split(asset, "/")
             g == IF InNamelist(names, internal)
                  THEN WriteFile(safe_mkdir(f, Parent(target)), target, Blob(internal))
                  ELSE f
         IN  LegacyExtractAssets(g, addon_folder, names, root_dir, Tail(assets))

(* A variant without the default. *)
AddonVersionNoDefault(m) == m.version

(* root.attrib.get("version", "0.0.0") *)
AddonVersion(m) == IF m.hasVersion THEN m.version ELSE "0.0.0"

(* "addon_id or ...": an absent id and an empty id are both falsy. *)
IdTruthy(m) == m.hasId /\ m.id # ""

FolderName(m, zip_name) == IF IdTruthy(m) THEN m.id ELSE Stem(zip_name)

LegacyFolderName(m, zip_name) == IF IdTruthy(m) THEN m.id ELSE SplitextRoot(zip_name)

NewName(m, original_name) ==
    IF IdTruthy(m) THEN m.id \o "-" \o AddonVersion(m) \o ".zip" ELSE original_name

(* process_zip of generate_pipiline.py on the archive at zip_path: the tree  *)
(* it leaves, and whether it raised (zipfile.BadZipFile, or ET.ParseError  *)
(* from ET.fromstring, both before anything is written).                   *)
process_zip(f, zip_path) ==
    LET z == f[zip_path].data
        original_name == Name(zip_path)
    IN  IF z.t # "zip" THEN [raised |-> TRUE, fs |-> f]
        ELSE LET addon_xml_internal == find_addon_xml(z.names)
             IN  IF addon_xml_internal = "" THEN [raised |-> FALSE, fs |-> f]
                 ELSE IF ~z.xml.wf THEN [raised |-> TRUE, fs |-> f]
                 ELSE LET addon_folder == BASE_DIR \o <<FolderName(z.xml, original_name)>>
                          f1 == safe_mkdir(f, addon_folder)
                          f2 == WriteFile(f1, addon_folder \o <<"addon.xml">>, XmlData(z.xml))
                          f3 == ExtractAssets(f2, addon_folder, z.names,
                                              PathParent(addon_xml_internal),
                                              extract_asset_paths(z.xml))
                          final_zip == addon_folder \o <<NewName(z.xml, original_name)>>
                      IN  [raised |-> FALSE, fs |-> Move(f3, zip_path, final_zip)]

(* process_zip of generate_zip.py. *)
legacy_process_zip(f, zip_path) ==
    LET z == f[zip_path].data
        original_zip_name == Name(zip_path)
    IN  IF z.t # "zip" THEN [raised |-> TRUE, fs |-> f]
        ELSE LET addon_xml_internal == find_addon_xml(z.names)
             IN  IF addon_xml_internal = "" THEN [raised |-> FALSE, fs |-> f]
                 ELSE IF ~z.xml.wf THEN [raised |-> TRUE, fs |-> f]
                 ELSE LET addon_folder ==
                              BASE_DIR \o <<LegacyFolderName(z.xml, original_zip_name)>>
                          f1 == safe_mkdir(f, addon_folder)
                          f2 == WriteFile(f1, addon_folder \o <<"addon.xml">>, XmlData(z.xml))
                          f3 == LegacyExtractAssets(f2, addon_folder, z.names,
                                                    Dirname(addon_xml_internal),
                                                    extract_asset_paths(z.xml))
                          final_zip_path ==
                              addon_folder \o <<NewName(z.xml, original_zip_name)>>
                      IN  [raised |-> FALSE, fs |-> Move(f3, zip_path, final_zip_path)]

(* The archives etapa_processar_zips lists: the files of BASE_DIR whose    *)
(* suffix is .zip in any case.                                             *)
RootZips(f) ==
    SelectSeq(IterDir(f, BASE_DIR),
              LAMBDA p : IsFile(f, p) /\ Lower(Suffix(Name(p))) = ".zip")

(* The archives main() of generate_zip.py lists. *)
LegacyRootZips(f) ==
    SelectSeq(IterDir(f, BASE_DIR),
              LAMBDA p : EndsWith(Lower(Name(p)), ".zip") /\ IsFile(f, p))

-----------------------------------------------------------------------------
(* Stage 2: addons.xml and addons.xml.md5. *)

EXCLUDED_DIRS == {".git", ".svn", "__pycache__", ".idea"}

(* ET.parse succeeds on a file holding a well-formed document. *)
Parses(f, p) == IsFile(f, p) /\ f[p].data.t = "xml" /\ f[p].data.xml.wf

(* The loop over BASE_DIR.iterdir(): the parsed roots with tag "addon". *)
RECURSIVE CollectAddons(_, _)
CollectAddons(f, entries) ==
    IF entries = << >> THEN << >>
    ELSE LET entry == Head(entries)
             addon_xml == entry \o <<"addon.xml">>
             keep == /\ IsDir(f, entry)
                     /\ Name(entry) \notin EXCLUDED_DIRS
                     /\ Exists(f, addon_xml)
                     /\ Parses(f, addon_xml)
                     /\ f[addon_xml].data.xml.tag = "addon"
         IN  (IF keep THEN <<f[addon_xml].data.xml>> ELSE << >>)
                 \o CollectAddons(f, Tail(entries))

(* A variant of the key that keeps the case. *)
SortKeyCaseSensitive(a) == IF a.hasId THEN a.id ELSE ""

(* key=lambda a: a.attrib.get("id", "").lower() *)
SortKey(a) == Lower(IF a.hasId THEN a.id ELSE "")

(* list.sort is stable: an entry goes after the entries whose key is not   *)
(* greater.                                                                *)
RECURSIVE InsertAddon(_, _)
InsertAddon(sorted, a) ==
    IF sorted = << >> THEN <<a>>
    ELSE IF StrLess(SortKey(a), SortKey(Head(sorted))) THEN <<a>> \o sorted
    ELSE <<Head(sorted)>> \o InsertAddon(Tail(sorted), a)

RECURSIVE SortAddonsFrom(_, _)
SortAddonsFrom(sorted, rest) ==
    IF rest = << >> THEN sorted
    ELSE SortAddonsFrom(InsertAddon(sorted, Head(rest)), Tail(rest))

SortAddons(addons) == SortAddonsFrom(<< >>, addons)

(* A variant that patches the stored aggregate instead of rebuilding it. *)
gerar_addons_xml_patching(f) ==
    LET old == IF IsFile(f, BASE_DIR \o <<"addons.xml">>)
                  /\ f[BASE_DIR \o <<"addons.xml">>].data.t = "addons"
               THEN f[BASE_DIR \o <<"addons.xml">>].data.addons
               ELSE << >>
    IN  WriteFile(f, BASE_DIR \o <<"addons.xml">>,
                  AddonsData(SortAddons(old \o CollectAddons(f, IterDir(f, BASE_DIR)))))

gerar_addons_xml(f) ==
    WriteFile(f, BASE_DIR \o <<"addons.xml">>,
              AddonsData(SortAddons(CollectAddons(f, IterDir(f, BASE_DIR)))))

(* A variant that writes the digest only when there is none yet. *)
gerar_md5_if_missing(f) ==
    IF Exists(f, BASE_DIR \o <<"addons.xml.md5">>) THEN f
    ELSE WriteFile(f, BASE_DIR \o <<"addons.xml.md5">>,
                   Md5(f[BASE_DIR \o <<"addons.xml">>].data))

gerar_md5(f) ==
    WriteFile(f, BASE_DIR \o <<"addons.xml.md5">>,
              Md5(f[BASE_DIR \o <<"addons.xml">>].data))

-----------------------------------------------------------------------------
(* Stage 3: index.html. *)

(* The regex group: runs of digits separated by single dots. *)
IsDotted(v) ==
    LET parts == Split(v, ".")
    IN  \A i \in 1..Len(parts) : AllDigits(parts[i])

(* Whether the pattern of extrair_versao ("One.repo-", the group, ".zip")   *)
(* matches nome from position i, and the position where its group then     *)
(* ends (".zip" cannot occur inside the group, so there is at most one).   *)
GroupEnds(nome, i) ==
    LET j == i + Len("One.repo-")
    IN  IF ~(j - 1 <= Len(nome) /\ SubSeq(nome, i, j - 1) = "One.repo-") THEN {}
        ELSE {e \in j..(Len(nome) - Len(".zip")) :
                 /\ IsDotted(SubSeq(nome, j, e))
                 /\ SubSeq(nome, e + 1, e + Len(".zip")) = ".zip"}

(* re.search: the leftmost match; its group split on "." and mapped by int. *)
(* << >> when nothing matches.                                             *)
extrair_versao(nome) ==
    LET starts == {i \in 1..Len(nome) : GroupEnds(nome, i) # {}}
    IN  IF starts = {} THEN << >>
        ELSE LET i == CHOOSE k \in starts : \A l \in starts : k <= l
                 e == CHOOSE x \in GroupEnds(nome, i) : TRUE
                 parts == Split(SubSeq(nome, i + Len("One.repo-"), e), ".")
             IN  [k \in 1..Len(parts) |-> ToInt(parts[k])]

(* Python's tuple < tuple. *)
RECURSIVE TupleLess(_, _)
TupleLess(a, b) ==
    IF b = << >> THEN FALSE
    ELSE IF a = << >> THEN TRUE
    ELSE IF Head(a) = Head(b) THEN TupleLess(Tail(a), Tail(b))
    ELSE Head(a) < Head(b)

(* A variant that looks with glob, at the directory's own entries only. *)
pasta_tem_zip_shallow(f, pasta) ==
    \E p \in Children(f, pasta) :
        GlobZip(Name(p)) /\ Lower(Suffix(Name(p))) = ".zip"

(* any(p.suffix.lower() == ".zip" for p in pasta.rglob("*.zip")) *)
pasta_tem_zip(f, pasta) ==
    LET found == RGlobZip(f, pasta)
    IN  \E i \in 1..Len(found) : Lower(Suffix(Name(found[i]))) = ".zip"

(* A variant that takes the first version found for the greatest. *)
MaiorFirstFound(encontrados) == encontrados[1].v

(* max(v for v, _ in encontrados) *)
Maior(encontrados) ==
    LET vs == {encontrados[i].v : i \in 1..Len(encontrados)}
    IN  CHOOSE v \in vs : \A w \in vs : ~TupleLess(v, w)

encontrar_repos_mais_recentes(f, raiz) ==
    LET items == RGlobOneRepo(f, raiz)
        all == [i \in 1..Len(items) |->
                   [v |-> extrair_versao(Name(items[i])), item |-> items[i]]]
        encontrados == SelectSeq(all, LAMBDA x : x.v # << >>)
    IN  IF encontrados = << >> THEN << >>
        ELSE LET maior == Maior(encontrados)
                 kept == SelectSeq(encontrados, LAMBDA x : x.v = maior)
             IN  [i \in 1..Len(kept) |-> kept[i].item]

(* sorted(pasta.iterdir(), key=lambda x: (not x.is_dir(), x.name.lower())) *)
ItemLess(f, a, b) ==
    IF IsDir(f, a) # IsDir(f, b) THEN IsDir(f, a)
    ELSE StrLess(Lower(Name(a)), Lower(Name(b)))

RECURSIVE InsertItem(_, _, _)
InsertItem(f, sorted, x) ==
    IF sorted = << >> THEN <<x>>
    ELSE IF ItemLess(f, x, Head(sorted)) THEN <<x>> \o sorted
    ELSE <<Head(sorted)>> \o InsertItem(f, Tail(sorted), x)

RECURSIVE SortItemsFrom(_, _, _)
SortItemsFrom(f, sorted, rest) ==
    IF rest = << >> THEN sorted
    ELSE SortItemsFrom(f, InsertItem(f, sorted, Head(rest)), Tail(rest))

SortedItems(f, pasta) == SortItemsFrom(f, << >>, IterDir(f, pasta))

(* A variant that links every visible subdirectory. *)
ItemLinksAllDirs(f, item) ==
    IF Hidden(Name(item)) \/ Name(item) = "index.html" THEN << >>
    ELSE IF IsDir(f, item) THEN <<"./" \o Name(item) \o "/index.html">>
    ELSE IF IsFile(f, item) /\ Lower(Suffix(Name(item))) = ".zip"
         THEN <<"./" \o Name(item)>>
    ELSE << >>

(* The link, if any, that the listing loop appends for one item. *)
ItemLinks(f, item) ==
    IF Hidden(Name(item)) \/ Name(item) = "index.html" THEN << >>
    ELSE IF IsDir(f, item) /\ pasta_tem_zip(f, item)
         THEN <<"./" \o Name(item) \o "/index.html">>
    ELSE IF IsFile(f, item) /\ Lower(Suffix(Name(item))) = ".zip"
         THEN <<"./" \o Name(item)>>
    ELSE << >>

RECURSIVE LinksOf(_, _)
LinksOf(f, items) ==
    IF items = << >> THEN << >>
    ELSE ItemLinks(f, Head(items)) \o LinksOf(f, Tail(items))

(* r.relative_to(raiz).as_posix() *)
RelPosix(p, raiz) == Join(SubSeq(p, Len(raiz) + 1, Len(p)), "/")

(* gerar_ou_remover_index: the tree it leaves.  The page is kept as its    *)
(* hrefs: the visible links in order, and the hrefs of the hidden block.   *)
gerar_ou_remover_index(f, pasta, raiz) ==
    LET index == pasta \o <<"index.html">>
        tem_zip == pasta_tem_zip(f, pasta)
        rs == encontrar_repos_mais_recentes(f, raiz)
        links == (IF pasta # raiz THEN <<"../index.html">> ELSE << >>)
                     \o LinksOf(f, SortedItems(f, pasta))
        hidden == IF pasta = raiz /\ rs # << >>
                  THEN [i \in 1..Len(rs) |-> RelPosix(rs[i], raiz)]
                  ELSE << >>
    IN  IF pasta # raiz /\ ~tem_zip
        THEN IF Exists(f, index) THEN Unlink(f, index) ELSE f
        ELSE IF pasta = raiz /\ rs = << >>
        THEN IF Exists(f, index) THEN Unlink(f, index) ELSE f
        ELSE WriteFile(f, index, Html(links, hidden))

(* varrer_bottom_up: the directories in the order gerar_ou_remover_index   *)
(* is called on them (index.html files come and go on the way, directories *)
(* do not).                                                                *)
RECURSIVE varrer_bottom_up(_, _)
RECURSIVE VarrerSubs(_, _)
varrer_bottom_up(f, pasta) == VarrerSubs(f, IterDir(f, pasta)) \o <<pasta>>
VarrerSubs(f, subs) ==
    IF subs = << >> THEN << >>
    ELSE (IF IsDir(f, Head(subs)) /\ ~Hidden(Name(Head(subs)))
          THEN varrer_bottom_up(f, Head(subs)) ELSE << >>)
             \o VarrerSubs(f, Tail(subs))

(* etapa_index: the whole tree bottom-up, then the root once more. *)
EtapaIndexCalls(f) == varrer_bottom_up(f, BASE_DIR) \o <<BASE_DIR>>

-----------------------------------------------------------------------------
(* The trees the pipeline is started on: BASE_DIR holding up to            *)
(* MaxRootZips uploaded archives and up to MaxFixtures pieces left by       *)
(* earlier runs or placed by hand.  Names ending in .zip are given to      *)
(* regular files only.                                                     *)

Merge(f, g) == [p \in DOMAIN f \cup DOMAIN g |-> IF p \in DOMAIN f THEN f[p] ELSE g[p]]

RECURSIVE MergeAll(_)
MergeAll(S) ==
    IF S = {} THEN (Root :> Dir)
    ELSE LET g == CHOOSE x \in S : TRUE IN Merge(MergeAll(S \ {g}), g)

StalePage == Html(<<"../index.html", "./gone.zip">>, << >>)

SampleXml == Manifest(TRUE, "addon", TRUE, "plugin.sample", TRUE, "2.1.0", <<"icon.png">>)

Archives ==
    { [name |-> "sample.zip",
       data |-> ZipData(<<"addon.xml", "icon.png">>, SampleXml)],
      [name |-> "mytool.zip",
       data |-> ZipData(<<"src/ADDON.XML", "src/resources/icon.png">>,
                        Manifest(TRUE, "addon", FALSE, "", FALSE, "",
                                 <<"resources/icon.png", "", "fanart.jpg">>))],
      [name |-> "empty.zip",
       data |-> ZipData(<<"readme.txt", "myaddon.xml">>,
                        Manifest(TRUE, "addon", TRUE, "ghost", TRUE, "1.0", << >>))],
      [name |-> "broken.zip",
       data |-> ZipData(<<"addon.xml">>,
                        Manifest(FALSE, "", FALSE, "", FALSE, "", << >>))],
      [name |-> "repo.zip",
       data |-> ZipData(<<"One.repo/addon.xml">>,
                        Manifest(TRUE, "addon", TRUE, "One.repo", TRUE, "1.2.1", << >>))],
      [name |-> "blank.zip",
       data |-> ZipData(<<"addon.xml">>,
                        Manifest(TRUE, "addon", TRUE, "", TRUE, "3.0", << >>))],
      [name |-> "nover.zip",
       data |-> ZipData(<<"addon.xml">>,
                        Manifest(TRUE, "addon", TRUE, "plugin.nover", FALSE, "", << >>))],
      [name |-> "UP.ZIP",
       data |-> ZipData(<<"Addon.xml">>,
                        Manifest(TRUE, "addon", FALSE, "", TRUE, "1.0", << >>))] }

ArchiveTree(a) == (<<a.name>> :> File(a.data))

Fixtures ==
    { \* a directory without archives that still holds a page
      (<<"docs">> :> Dir) @@ (<<"docs", "index.html">> :> File(StalePage))
          @@ (<<"docs", "readme.txt">> :> File(Blob("readme"))),
      \* a hidden directory that holds a page and no archive
      (<<".old">> :> Dir) @@ (<<".old", "index.html">> :> File(StalePage)),
      \* a hidden directory that holds a root-package archive
      (<<".dl">> :> Dir)
          @@ (<<".dl", "One.repo-9.0.zip">> :> File(ZipData(<<"addon.xml">>, SampleXml))),
      \* the package folder of an earlier ingestion of plugin.sample
      (<<"plugin.sample">> :> Dir)
          @@ (<<"plugin.sample", "addon.xml">> :>
                 File(XmlData(Manifest(TRUE, "addon", TRUE, "plugin.sample",
                                       TRUE, "2.0.0", << >>))))
          @@ (<<"plugin.sample", "plugin.sample-2.1.0.zip">> :>
                 File(ZipData(<<"addon.xml">>, SampleXml))),
      \* the package folder of the root package, one version behind
      (<<"One.repo">> :> Dir)
          @@ (<<"One.repo", "addon.xml">> :>
                 File(XmlData(Manifest(TRUE, "addon", TRUE, "One.repo",
                                       TRUE, "1.2.0", << >>))))
          @@ (<<"One.repo", "One.repo-1.2.0.zip">> :>
                 File(ZipData(<<"addon.xml">>,
                              Manifest(TRUE, "addon", TRUE, "One.repo",
                                       TRUE, "1.2.0", << >>)))),
      \* the outputs of an earlier run, made when there was no package yet
      \* and a root package that has since been taken away
      (<<"addons.xml">> :> File(AddonsData(<< >>)))
          @@ (<<"addons.xml.md5">> :> File(Md5(AddonsData(<< >>))))
          @@ (<<"index.html">> :> File(Html(<< >>, <<"One.repo-0.9.zip">>))),
      \* an archive two levels down, beside a directory without any
      (<<"pkg">> :> Dir) @@ (<<"pkg", "sub">> :> Dir)
          @@ (<<"pkg", "sub", "tool.zip">> :> File(ZipData(<<"addon.xml">>, SampleXml)))
          @@ (<<"pkg", "void">> :> Dir)
          @@ (<<"pkg", "void", "index.html">> :> File(StalePage)) }

Orders == {"asc", "desc"}

Init ==
    /\ \E A \in SUBSET Archives : \E F \in SUBSET Fixtures :
          /\ Cardinality(A) <= MaxRootZips
          /\ Cardinality(F) <= MaxFixtures
          /\ fs = MergeAll({ArchiveTree(a) : a \in A} \cup F)
    /\ before = fs
    /\ pc \in {"main", "zip_main"}
    /\ run = 1
    /\ zips = << >>
    /\ todo = << >>
    /\ order \in Orders
    /\ repos = << >>

-----------------------------------------------------------------------------
(* main() of generate_pipiline.py, one step per call it makes. *)

(* etapa_processar_zips up to its loop: the archives are listed once. *)
EtapaProcessarZips ==
    /\ pc = "main"
    /\ zips' = RootZips(fs)
    /\ pc' = IF zips' = << >> THEN "addons_xml" ELSE "zips"
    /\ UNCHANGED <<fs, run, todo, before, order, repos>>

(* One pass of the loop: process_zip(z).  Nothing catches what it raises,  *)
(* so an exception ends main().                                            *)
ProcessZip ==
    /\ pc = "zips"
    /\ zips # << >>
    /\ LET r == process_zip(fs, Head(zips))
       IN  /\ fs' = r.fs
           /\ zips' = Tail(zips)
           /\ pc' = IF r.raised THEN "aborted"
                    ELSE IF Tail(zips) = << >> THEN "addons_xml" ELSE "zips"
    /\ UNCHANGED <<run, todo, before, order, repos>>

GerarAddonsXml ==
    /\ pc = "addons_xml"
    /\ fs' = gerar_addons_xml(fs)
    /\ pc' = "md5"
    /\ UNCHANGED <<run, zips, todo, before, order, repos>>

(* gerar_md5, and etapa_index up to its first gerar_ou_remover_index. *)
GerarMd5 ==
    /\ pc = "md5"
    /\ fs' = gerar_md5(fs)
    /\ todo' = EtapaIndexCalls(fs')
    /\ pc' = "index"
    /\ UNCHANGED <<run, zips, before, order, repos>>

GerarOuRemoverIndex ==
    /\ pc = "index"
    /\ todo # << >>
    /\ fs' = gerar_ou_remover_index(fs, Head(todo), BASE_DIR)
    /\ todo' = Tail(todo)
    /\ pc' = IF Tail(todo) = << >> THEN "done" ELSE "index"
    /\ UNCHANGED <<run, zips, before, order, repos>>

(* The script is run again on the tree the last run left. *)
MainAgain ==
    /\ pc \in {"done", "aborted"}
    /\ run < MaxRuns
    /\ run' = run + 1
    /\ before' = fs
    /\ pc' = "main"
    /\ zips' = << >>
    /\ todo' = << >>
    /\ UNCHANGED <<fs, order, repos>>

(* main() of generate_zip.py. *)
LegacyMain ==
    /\ pc = "zip_main"
    /\ zips' = LegacyRootZips(fs)
    /\ pc' = IF zips' = << >> THEN "zip_done" ELSE "zip_zips"
    /\ UNCHANGED <<fs, run, todo, before, order, repos>>

LegacyProcessZip ==
    /\ pc = "zip_zips"
    /\ zips # << >>
    /\ LET r == legacy_process_zip(fs, Head(zips))
       IN  /\ fs' = r.fs
           /\ zips' = Tail(zips)
           /\ pc' = IF r.raised THEN "zip_aborted"
                    ELSE IF Tail(zips) = << >> THEN "zip_done" ELSE "zip_zips"
    /\ UNCHANGED <<run, todo, before, order, repos>>

Next ==
    \/ EtapaProcessarZips
    \/ ProcessZip
    \/ GerarAddonsXml
    \/ GerarMd5
    \/ GerarOuRemoverIndex
    \/ MainAgain
    \/ LegacyMain
    \/ LegacyProcessZip

Spec == Init /\ [][Next]_vars

-----------------------------------------------------------------------------
(* gerar_addons_xml alone, over sets of package folders. *)

Folder(name, m) ==
    (<<name>> :> Dir) @@ (<<name, "addon.xml">> :> File(XmlData(m)))

IdOnly(id) == Manifest(TRUE, "addon", TRUE, id, TRUE, "1.0.0", << >>)

FolderCands ==
    { Folder("zeta", IdOnly("Zeta")),
      Folder("alpha", IdOnly("alpha")),
      Folder("beta", IdOnly("beta")),
      Folder("Beta2", IdOnly("BETA")),
      Folder("noid", Manifest(TRUE, "addon", FALSE, "", TRUE, "1.0.0", << >>)),
      Folder(".git", IdOnly("aaa")),
      Folder(".hid", IdOnly("hid")),
      Folder("broken", Manifest(FALSE, "", FALSE, "", FALSE, "", << >>)),
      Folder("other", Manifest(TRUE, "plugin", TRUE, "abc", TRUE, "1.0.0", << >>)),
      (<<"bare">> :> Dir) @@ (<<"bare", "notes.txt">> :> File(Blob("notes"))) }

InitSort ==
    /\ \E F \in SUBSET FolderCands :
          /\ Cardinality(F) <= MaxFolders
          /\ fs = MergeAll(F)
    /\ before = fs
    /\ pc = "addons_xml"
    /\ run = 1
    /\ zips = << >>
    /\ todo = << >>
    /\ order \in Orders
    /\ repos = << >>

NextSort == GerarAddonsXml \/ GerarMd5

SpecSort == InitSort /\ [][NextSort]_vars

-----------------------------------------------------------------------------
(* encontrar_repos_mais_recentes alone, over sets of archives in the tree. *)

Placed(dir, name) ==
    IF dir = "" THEN (<<name>> :> File(ZipData(<< >>, SampleXml)))
    ELSE (<<dir>> :> Dir) @@ (<<dir, name>> :> File(ZipData(<< >>, SampleXml)))

PlacedCands ==
    { Placed("", "One.repo-1.0.0.zip"),
      Placed("a", "One.repo-1.2.0.zip"),
      Placed("a", "One.repo-1.2.1.zip"),
      Placed("b", "One.repo-1.2.1.zip"),
      Placed("b", "One.repo-01.2.1.zip"),
      Placed("a", "One.repo-1.2.zip"),
      Placed(".h", "One.repo-1.10.zip"),
      Placed("b", "One.repo-beta.zip"),
      Placed("b", "other-9.9.zip"),
      Placed("a", "one.repo-5.0.zip") }

InitLatest ==
    /\ \E P \in SUBSET PlacedCands :
          /\ Cardinality(P) <= MaxPlaced
          /\ fs = MergeAll(P)
    /\ before = fs
    /\ pc = "latest"
    /\ run = 1
    /\ zips = << >>
    /\ todo = << >>
    /\ order \in Orders
    /\ repos = << >>

EncontrarReposMaisRecentes ==
    /\ pc = "latest"
    /\ repos' = encontrar_repos_mais_recentes(fs, BASE_DIR)
    /\ pc' = "latest_done"
    /\ UNCHANGED <<fs, run, zips, todo, before, order>>

NextLatest == EncontrarReposMaisRecentes

SpecLatest == InitLatest /\ [][NextLatest]_vars

-----------------------------------------------------------------------------
(* What the properties below speak of. *)

Dirs(f) == {p \in DOMAIN f : f[p].kind = "dir"}

IndexOf(d) == d \o <<"index.html">>

HasIndex(f, d) == Exists(f, IndexOf(d))

Below(p, d) == Len(p) > Len(d) /\ SubSeq(p, 1, Len(d)) = d

(* An archive: a file whose name ends in ".zip". *)
IsArchive(f, p) == IsFile(f, p) /\ EndsWith(Name(p), ".zip")

ArchiveBelow(f, d) == \E p \in DOMAIN f : Below(p, d) /\ IsArchive(f, p)

(* A directory at or below a directory whose name starts with ".". *)
HiddenPath(d) == \E i \in 1..Len(d) : Hidden(d[i])

DottedVersion(v) ==
    /\ v # ""
    /\ \A i \in 1..Len(v) : IsDigit(Chr(v, i)) \/ Chr(v, i) = "."
    /\ IsDigit(Chr(v, 1))
    /\ IsDigit(Chr(v, Len(v)))
    /\ \A i \in 1..(Len(v) - 1) : ~(Chr(v, i) = "." /\ Chr(v, i + 1) = ".")

VersionText(n) == SubSeq(n, Len("One.repo-") + 1, Len(n) - Len(".zip"))

(* The name is One.repo-<dotted-version>.zip, all of it. *)
IsRootPackageName(n) ==
    /\ Len(n) > Len("One.repo-") + Len(".zip")
    /\ StartsWith(n, "One.repo-")
    /\ EndsWith(n, ".zip")
    /\ DottedVersion(VersionText(n))

VersionOf(n) ==
    LET parts == Split(VersionText(n), ".")
    IN  [k \in 1..Len(parts) |-> ToInt(parts[k])]

(* Lexicographic order of integer sequences. *)
LexLess(a, b) ==
    \E k \in 1..Len(b) :
        /\ Len(a) >= k - 1
        /\ \A i \in 1..(k - 1) : a[i] = b[i]
        /\ (Len(a) = k - 1 \/ a[k] < b[k])

RootPackageArchives(f) ==
    {p \in DOMAIN f : IsFile(f, p) /\ IsRootPackageName(Name(p))}

AddonsXml == BASE_DIR \o <<"addons.xml">>

AddonsMd5 == BASE_DIR \o <<"addons.xml.md5">>

(* addons.xml, addons.xml.md5 and every index.html: where they are and     *)
(* what they hold.                                                         *)
Outputs(f) ==
    LET ps == {p \in DOMAIN f :
                  p = AddonsXml \/ p = AddonsMd5
                  \/ (Len(p) > 0 /\ Name(p) = "index.html")}
    IN  [p \in ps |-> f[p]]

(* Where a relative href of the page of directory d leads. *)
RECURSIVE ResolveFrom(_, _)
ResolveFrom(at, parts) ==
    IF parts = << >> THEN at
    ELSE LET h == Head(parts)
             next == IF ~at.ok \/ h = "." THEN at
                     ELSE IF h = ".."
                          THEN IF at.path = << >> THEN [ok |-> FALSE, path |-> << >>]
                               ELSE [ok |-> TRUE, path |-> Parent(at.path)]
                     ELSE [ok |-> TRUE, path |-> at.path \o <<h>>]
         IN  ResolveFrom(next, Tail(parts))

LinkResolves(f, d, href) ==
    LET r == ResolveFrom([ok |-> TRUE, path |-> d], Split(href, "/"))
    IN  r.ok /\ IsFile(f, r.path)

PageLinks(f, d) ==
    LET page == f[IndexOf(d)].data
    IN  {page.links[i] : i \in 1..Len(page.links)}
            \cup {page.hidden[i] : i \in 1..Len(page.hidden)}

NoManifestEntry(names) ==
    \A i \in 1..Len(names) :
        /\ Lower(names[i]) # "addon.xml"
        /\ ~EndsWith(Lower(names[i]), "/addon.xml")

(* The ingestion loop of either script is about to process Head(zips). *)
InLoop == pc \in {"zips", "zip_zips"} /\ zips # << >>

HeadZip == fs[Head(zips)].data

Aborted == pc \in {"aborted", "zip_aborted"}

-----------------------------------------------------------------------------
(* C1 as stated: when etapa_index has completed, every directory other     *)
(* than the root has an index.html if and only if an archive exists in its *)
(* subtree.  It fails for directories at or below a hidden directory,      *)
(* which varrer_bottom_up never visits.                                    *)
C1_EveryDirectory ==
    pc = "done" =>
        \A d \in Dirs(fs) \ {Root} : HasIndex(fs, d) <=> ArchiveBelow(fs, d)

(* C1, amended: when etapa_index has completed, every directory other than *)
(* the root that is not at or below a hidden directory has an index.html   *)
(* if and only if a file named *.zip exists somewhere in its subtree.      *)
C1_ListingIffArchive ==
    pc = "done" =>
        \A d \in Dirs(fs) \ {Root} :
            ~HiddenPath(d) => (HasIndex(fs, d) <=> ArchiveBelow(fs, d))

(* A run that removed the stale page of an archive-less directory and      *)
(* wrote the page of a directory whose only archive lies two levels down.  *)
C1_Witness ==
    /\ pc = "done"
    /\ run = 1
    /\ HasIndex(before, <<"pkg", "void">>)
    /\ ~HasIndex(fs, <<"pkg", "void">>)
    /\ ~HasIndex(before, <<"pkg">>)
    /\ HasIndex(fs, <<"pkg">>)

(* C2: when etapa_index has completed, the root index.html exists if and   *)
(* only if some archive named One.repo-<dotted-version>.zip exists         *)
(* anywhere in the tree.                                                   *)
C2_RootIndexIffRootPackage ==
    pc = "done" => (HasIndex(fs, Root) <=> RootPackageArchives(fs) # {})

(* A run that deleted the root page it found, with other archives present. *)
C2_Witness ==
    /\ pc = "done"
    /\ run = 1
    /\ HasIndex(before, Root)
    /\ ~HasIndex(fs, Root)
    /\ ArchiveBelow(fs, Root)

(* C3: a run of main() on the tree left by the run before it leaves        *)
(* addons.xml, addons.xml.md5 and every index.html as they were.           *)
C3_SecondRunChangesNothing ==
    (run >= 2 /\ pc \in {"done", "aborted"}) => Outputs(fs) = Outputs(before)

(* A completed second run over a tree with packages, pages and an archive  *)
(* left at the root.                                                       *)
C3_Witness ==
    /\ run = 2
    /\ pc = "done"
    /\ HasIndex(fs, Root)
    /\ Len(fs[AddonsXml].data.addons) >= 2
    /\ \E p \in Children(fs, Root) : IsArchive(fs, p)

(* C4 as stated: whenever addons.xml and addons.xml.md5 both exist, the    *)
(* digest is that of the current addons.xml.  It fails between the two     *)
(* writes of etapa_addons_xml.                                             *)
C4_DigestAlwaysCurrent ==
    (Exists(fs, AddonsXml) /\ Exists(fs, AddonsMd5))
        => fs[AddonsMd5].data = Md5(fs[AddonsXml].data)

(* C4, amended: once gerar_md5 has returned, for the rest of the run, both *)
(* files exist and the digest is that of the current addons.xml.           *)
C4_DigestCurrentAfterStage ==
    pc \in {"index", "done"} =>
        /\ Exists(fs, AddonsXml)
        /\ Exists(fs, AddonsMd5)
        /\ fs[AddonsMd5].data = Md5(fs[AddonsXml].data)

(* gerar_md5 has just replaced the digest of an earlier, different         *)
(* aggregate.                                                              *)
C4_Witness ==
    /\ pc = "index"
    /\ run = 1
    /\ Exists(before, AddonsMd5)
    /\ before[AddonsMd5].data # fs[AddonsMd5].data

-----------------------------------------------------------------------------
IdOrEmpty(a) == IF a.hasId THEN a.id ELSE ""

Contributes(f, d) ==
    /\ Len(d) = 1
    /\ IsDir(f, d)
    /\ Name(d) \notin {".git", ".svn", "__pycache__", ".idea"}
    /\ IsFile(f, d \o <<"addon.xml">>)
    /\ f[d \o <<"addon.xml">>].data.t = "xml"
    /\ f[d \o <<"addon.xml">>].data.xml.wf
    /\ f[d \o <<"addon.xml">>].data.xml.tag = "addon"

(* C5: the entries gerar_addons_xml writes are in ascending order of their *)
(* id compared without regard to case, a missing id counting as "", and    *)
(* they are the manifests of exactly the folders that are not excluded,    *)
(* hold an addon.xml that parses and whose root tag is addon.              *)
C5_SortedAggregate ==
    pc \in {"md5", "index"} =>
        LET A == fs[AddonsXml].data.addons
            Q == {d \in Dirs(fs) : Contributes(fs, d)}
        IN  /\ \A i \in 1..(Len(A) - 1) :
                   ~StrLess(Lower(IdOrEmpty(A[i + 1])), Lower(IdOrEmpty(A[i])))
            /\ Len(A) = Cardinality(Q)
            /\ \A d \in Q : \E i \in 1..Len(A) : A[i] = fs[d \o <<"addon.xml">>].data.xml
            /\ \A i \in 1..Len(A) : \E d \in Q : A[i] = fs[d \o <<"addon.xml">>].data.xml

(* An aggregate of three entries, the one without id first, beta before    *)
(* Zeta, made beside an excluded folder that holds a manifest.             *)
C5_Witness ==
    /\ pc = "md5"
    /\ IsFile(fs, <<".git", "addon.xml">>)
    /\ Len(fs[AddonsXml].data.addons) = 3
    /\ ~fs[AddonsXml].data.addons[1].hasId
    /\ fs[AddonsXml].data.addons[2].id = "beta"
    /\ fs[AddonsXml].data.addons[3].id = "Zeta"

(* C6: encontrar_repos_mais_recentes returns exactly the archives named    *)
(* One.repo-<dotted-version>.zip whose version, as a sequence of integers, *)
(* no other such archive exceeds; each once; none only when there is none. *)
C6_LatestVersions ==
    pc = "latest_done" =>
        LET M == RootPackageArchives(fs)
            best == {p \in M : \A q \in M :
                        ~LexLess(VersionOf(Name(p)), VersionOf(Name(q)))}
        IN  /\ {repos[i] : i \in 1..Len(repos)} = best
            /\ Len(repos) = Cardinality(best)
            /\ (repos = << >> <=> M = {})

(* The same One.repo-1.2.1.zip in two directories, an older one beside:    *)
(* both are returned.                                                      *)
C6_Witness ==
    /\ pc = "latest_done"
    /\ Len(repos) = 2
    /\ Name(repos[1]) = "One.repo-1.2.1.zip"
    /\ Name(repos[2]) = "One.repo-1.2.1.zip"
    /\ IsFile(fs, <<"a", "One.repo-1.2.0.zip">>)

-----------------------------------------------------------------------------
(* C7: process_zip on an archive without a manifest entry changes nothing  *)
(* in the tree and raises nothing, and the loop goes on with the archives  *)
(* that remain.                                                            *)
C7_MissingManifestSkipped ==
    [][(InLoop /\ HeadZip.t = "zip" /\ NoManifestEntry(HeadZip.names))
          => /\ fs' = fs
             /\ ~Aborted'
             /\ zips' = Tail(zips)
             /\ (Tail(zips) # << >> => pc' = pc)]_vars

(* empty.zip has been passed over, is still at the root, nothing has been  *)
(* written, and another archive is next.                                   *)
C7_Witness ==
    /\ pc = "zips"
    /\ run = 1
    /\ zips # << >>
    /\ IsFile(fs, <<"empty.zip">>)
    /\ \A i \in 1..Len(zips) : zips[i] # <<"empty.zip">>
    /\ fs = before

(* C8: an archive whose manifest cannot be parsed does not end the stage:  *)
(* the loop goes on with the archives that remain and the later stages     *)
(* run.                                                                    *)
C8_FailureIsolated ==
    [][(pc = "zips" /\ zips # << >> /\ HeadZip.t = "zip"
           /\ ~NoManifestEntry(HeadZip.names) /\ ~HeadZip.xml.wf)
          => /\ pc' = (IF Tail(zips) = << >> THEN "addons_xml" ELSE "zips")
             /\ zips' = Tail(zips)]_vars

-----------------------------------------------------------------------------
ClaimedVersion(m) == IF m.hasVersion THEN m.version ELSE "0.0.0"

(* The archive filename minus its extension. *)
MinusExtension(name) == SubSeq(name, 1, LastDot(name) - 1)

PlacedAt(f0, f1, zip_path, target) ==
    /\ ~Exists(f1, zip_path)
    /\ IsFile(f1, target)
    /\ f1[target].data = f0[zip_path].data

Returns(z) == z.t = "zip" /\ ~NoManifestEntry(z.names) /\ z.xml.wf

(* C9 as stated: after process_zip on a root archive with a manifest, the  *)
(* archive is gone from the root and is <id>/<id>-<version>.zip when the   *)
(* manifest has an id, <stem>/<original name> when it has none.  It fails  *)
(* for an id that is the empty string.                                     *)
C9_PlacedById ==
    [][(InLoop /\ Returns(HeadZip))
          => LET m == HeadZip.xml
                 name == Name(Head(zips))
             IN  PlacedAt(fs, fs', Head(zips),
                          IF m.hasId
                          THEN <<m.id, m.id \o "-" \o ClaimedVersion(m) \o ".zip">>
                          ELSE <<MinusExtension(name), name>>)]_vars

(* C9, amended: after process_zip has returned on a root archive with a    *)
(* manifest, the archive is gone from the root and is                      *)
(* <id>/<id>-<version>.zip (version 0.0.0 when absent), replacing what was *)
(* there, when the manifest has a non-empty id; <stem>/<original name>     *)
(* when the id is absent or empty.                                         *)
C9_PlacedByNonEmptyId ==
    [][(InLoop /\ Returns(HeadZip))
          => LET m == HeadZip.xml
                 name == Name(Head(zips))
             IN  PlacedAt(fs, fs', Head(zips),
                          IF m.hasId /\ m.id # ""
                          THEN <<m.id, m.id \o "-" \o ClaimedVersion(m) \o ".zip">>
                          ELSE <<MinusExtension(name), name>>)]_vars

(* sample.zip has replaced the plugin.sample-2.1.0.zip of an earlier       *)
(* ingestion, and nover.zip has become plugin.nover-0.0.0.zip.             *)
C9_Witness ==
    /\ run = 1
    /\ pc \in {"addons_xml", "zip_done"}
    /\ IsFile(before, <<"sample.zip">>)
    /\ IsFile(before, <<"nover.zip">>)
    /\ IsFile(before, <<"plugin.sample", "plugin.sample-2.1.0.zip">>)
    /\ ~Exists(fs, <<"sample.zip">>)
    /\ fs[<<"plugin.sample", "plugin.sample-2.1.0.zip">>].data
           = before[<<"sample.zip">>].data
    /\ fs[<<"plugin.sample", "plugin.sample-2.1.0.zip">>].data
           # before[<<"plugin.sample", "plugin.sample-2.1.0.zip">>].data
    /\ IsFile(fs, <<"plugin.nover", "plugin.nover-0.0.0.zip">>)

-----------------------------------------------------------------------------
(* C10 as stated: when etapa_index has completed, every link of every      *)
(* existing index.html leads to an existing file.  It fails for the        *)
(* ../index.html of a top-level directory when the root has no page, and   *)
(* for the pages left untouched below hidden directories.                  *)
C10_EveryLinkResolves ==
    pc = "done" =>
        \A d \in Dirs(fs) :
            HasIndex(fs, d) => \A href \in PageLinks(fs, d) : LinkResolves(fs, d, href)

(* C10, amended: when etapa_index has completed, in the index.html of      *)
(* every directory that is not at or below a hidden directory, every link  *)
(* to a child page, to an archive and to a root-package archive leads to   *)
(* an existing file, and so does ../index.html, except in a top-level      *)
(* directory, where it does if and only if a root-package archive exists.  *)
C10_LinksOfWrittenPages ==
    pc = "done" =>
        \A d \in Dirs(fs) :
            (~HiddenPath(d) /\ HasIndex(fs, d)) =>
                \A href \in PageLinks(fs, d) :
                    IF href = "../index.html" /\ Len(d) = 1
                    THEN LinkResolves(fs, d, href) <=> RootPackageArchives(fs) # {}
                    ELSE LinkResolves(fs, d, href)

(* Pages two levels deep whose links all resolve, under a root without a   *)
(* page.                                                                   *)
C10_Witness ==
    /\ pc = "done"
    /\ HasIndex(fs, <<"pkg", "sub">>)
    /\ HasIndex(fs, <<"pkg">>)
    /\ ~HasIndex(fs, Root)
    /\ LinkResolves(fs, <<"pkg", "sub">>, "../index.html")
    /\ ~LinkResolves(fs, <<"pkg">>, "../index.html")

====
